---- MODULE Spec2Model ----
(***************************************************************************)
(* Model of the ColorLight 5a-75 channel output driver                     *)
(* (src/src/channeloutput/ColorLight-5a-75.cpp): Init, PrepData, SendData  *)
(* and Close of ColorLight5a75Output, with the send primitive, the clock   *)
(* and the network environment as nondeterministic inputs.                 *)
(*                                                                         *)
(* Byte buffers are functions over 0..n-1, as C arrays are.  Time is kept  *)
(* in ticks of one sleep period (500 microseconds); GetTimeMS() truncates  *)
(* it to milliseconds.                                                     *)
(***************************************************************************)
EXTENDS Integers, Sequences, FiniteSets, TLC

(***************************************************************************)
(* Bounds of the model.                                                    *)
(***************************************************************************)
\* SendData is not started once m_slowCount has reached this value
MaxSlowCount == 4
\* channel buffers offered by the caller: frames 1..MaxFrames
MaxFrames == 2
\* a call of the send primitive takes 0 or MaxSendTicks ticks
MaxSendTicks == 9
\* a sleep takes one tick, or one tick and MaxSleepJitter more
MaxSleepJitter == 6
\* SendData is not started on the second output of PairSpec once its
\* m_slowCount has reached this value
MaxPeerSlowCount == 1
\* the framework calls Close at most this many times on one output
MaxCloses == 2

(***************************************************************************)
(* Program constants.                                                      *)
(***************************************************************************)
CL5A75_0101_PACKET_DATA_LEN == 98
CL5A75_0AFF_PACKET_DATA_LEN == 63
CL5A75_HEADER_LEN == 7
CL5A75_MAX_PIXELS_PER_PACKET == 497
CL5A75_MAX_CHANNELS_PER_PACKET == CL5A75_MAX_PIXELS_PER_PACKET * 3
\* sizeof(struct ether_header): 6 + 6 + 2 bytes
ETHER_HEADER_LEN == 14
\* the soft deadline of SendData, in milliseconds
DeadlineMS == 22
\* m_slowCount above this raises the repeated-slow-frames warning
SlowWarnThreshold == 3
\* timeout of the repeated-slow-frames warning, in seconds
SlowWarnTimeout == 30
\* minimum link speed, in Mbps
MinLinkSpeed == 1000
\* the sleep between retries, in microseconds
SleepMicros == 500
DefaultPanelWidth == 32
DefaultPanelHeight == 16

\* one tick is one sleep period
TicksPerMS == 1000 \div SleepMicros

Max(a, b) == IF a > b THEN a ELSE b

\* a zero-filled byte array of n bytes (memset(p, 0, n))
Zeros(n) == [i \in 0..(n - 1) |-> 0]

\* htons(v) stored in memory: most significant byte first
Htons(v) == <<(v \div 256) % 256, v % 256>>

(***************************************************************************)
(* Configurations (the Json::Value given to Init).  A value of 0 stands    *)
(* for an absent member, as asInt() of a missing member yields 0; gamma is *)
(* given in hundredths.                                                    *)
(***************************************************************************)
Panel(o, c, orient, x, y) ==
    [outputNumber |-> o, panelNumber |-> c, orientation |-> orient,
     xOffset |-> x, yOffset |-> y]

\* one 2x1 panel, current layout
CfgSingle ==
    [panelWidth |-> 2, panelHeight |-> 1, cfgVersion |-> 2,
     gamma |-> 0, panels |-> <<Panel(0, 0, "N", 0, 0)>>]

\* two outputs with one 1x1 panel each, legacy layout (no cfgVersion)
CfgTwoOutputs ==
    [panelWidth |-> 1, panelHeight |-> 1, cfgVersion |-> 0,
     gamma |-> 200, panels |-> <<Panel(0, 0, "N", 0, 0), Panel(1, 0, "N", 0, 1)>>]

\* one 498x1 panel: a row of 1494 bytes, more than one packet can carry
CfgWide ==
    [panelWidth |-> 498, panelHeight |-> 1, cfgVersion |-> 2,
     gamma |-> 0, panels |-> <<Panel(0, 0, "N", 0, 0)>>]

\* one output with a chain of two 2x2 panels, current layout
CfgChain ==
    [panelWidth |-> 2, panelHeight |-> 2, cfgVersion |-> 2,
     gamma |-> 0, panels |-> <<Panel(0, 0, "N", 0, 0), Panel(0, 1, "U", 2, 0)>>]

\* the geometry left unset: the 32x16 default, one panel
CfgDefault ==
    [panelWidth |-> 0, panelHeight |-> 0, cfgVersion |-> 2,
     gamma |-> 0, panels |-> <<Panel(0, 0, "N", 0, 0)>>]

\* two outputs with a chain of two 2x1 panels each, configuration format 1,
\* with the orientations R, L, none given, and a code Init does not know
CfgLegacy ==
    [panelWidth |-> 2, panelHeight |-> 1, cfgVersion |-> 1,
     gamma |-> 0, panels |-> <<Panel(0, 0, "R", 0, 0), Panel(0, 1, "L", 1, 0),
                               Panel(1, 0, "", 2, 0), Panel(1, 1, "X", 2, 1)>>]

\* no panels member
CfgNoPanels ==
    [panelWidth |-> 2, panelHeight |-> 1, cfgVersion |-> 2,
     gamma |-> 0, panels |-> <<>>]

\* two panels given the same output and the same place in its chain
CfgDuplicate ==
    [panelWidth |-> 2, panelHeight |-> 1, cfgVersion |-> 3,
     gamma |-> 0, panels |-> <<Panel(0, 0, "N", 0, 0), Panel(0, 0, "N", 2, 0)>>]

\* two outputs and chains of two, with panels at two of the four places
CfgHole ==
    [panelWidth |-> 2, panelHeight |-> 1, cfgVersion |-> 2,
     gamma |-> 0, panels |-> <<Panel(0, 0, "N", 2, 0), Panel(1, 1, "N", 0, 0)>>]

\* the configurations an output is initialized with in Spec
Configs == {CfgSingle, CfgTwoOutputs}

\* the configurations an output is initialized with in GeomSpec
GeomConfigs == {CfgWide, CfgChain}

\* the configurations an output is initialized with in WallSpec
WallConfigs == {CfgChain, CfgLegacy, CfgNoPanels, CfgDuplicate, CfgHole}

\* the channel buffers the caller offers: frame f holds these bytes
Frames == 1..MaxFrames
ChannelData(f, n) == [i \in 0..(n - 1) |-> (16 * f + (2 * f + 1) * i) % 256]

\* contents a freshly allocated, never written buffer may hold
UninitBytes == {0, 165}

\* the network environment Init meets
Envs ==
    [linkUp : BOOLEAN, ifspeed : {100, 1000, 2500}, socketOk : BOOLEAN,
     ioctlOk : BOOLEAN, bindOk : BOOLEAN]

\* the first channel of the output (constructor argument)
StartChannel == 0

(***************************************************************************)
(* PanelMatrix: panel placement, pixel maps and canvas extent.             *)
(***************************************************************************)
\* the extent of a panel on the canvas, by orientation
PanelCanvasWidth(p, pw, ph) == IF p.orientation \in {"R", "L"} THEN ph ELSE pw
PanelCanvasHeight(p, pw, ph) == IF p.orientation \in {"R", "L"} THEN pw ELSE ph

\* canvas x and y of the panel-local pixel (x, y)
PanelPixelX(p, x, y, pw, ph) ==
    CASE p.orientation = "U" -> p.xOffset + (pw - 1 - x)
      [] p.orientation = "R" -> p.xOffset + (ph - 1 - y)
      [] p.orientation = "L" -> p.xOffset + y
      [] OTHER -> p.xOffset + x
PanelPixelY(p, x, y, pw, ph) ==
    CASE p.orientation = "U" -> p.yOffset + (ph - 1 - y)
      [] p.orientation = "R" -> p.yOffset + x
      [] p.orientation = "L" -> p.yOffset + (pw - 1 - x)
      [] OTHER -> p.yOffset + y

RECURSIVE MatrixWidth(_, _, _)
MatrixWidth(ps, pw, ph) ==
    IF ps = <<>> THEN 0
    ELSE Max(Head(ps).xOffset + PanelCanvasWidth(Head(ps), pw, ph),
             MatrixWidth(Tail(ps), pw, ph))
RECURSIVE MatrixHeight(_, _, _)
MatrixHeight(ps, pw, ph) ==
    IF ps = <<>> THEN 0
    ELSE Max(Head(ps).yOffset + PanelCanvasHeight(Head(ps), pw, ph),
             MatrixHeight(Tail(ps), pw, ph))

\* pixelMap[i] of a panel: the channel of the canvas that byte i of the
\* panel (row-major, 3 bytes a pixel, RGB order) is read from
PixelMap(pm, p, i) ==
    LET pix == i \div 3
        x == pix % pm.panelWidth
        y == pix \div pm.panelWidth
    IN  (PanelPixelY(p, x, y, pm.panelWidth, pm.panelHeight) * pm.width
          + PanelPixelX(p, x, y, pm.panelWidth, pm.panelHeight)) * 3 + (i % 3)

\* m_outputPanels[output]: the indices of the panels wired to that output
OutputPanels(pm, output) ==
    SelectSeq([i \in 1..Len(pm.panels) |-> i],
              LAMBDA i : pm.panels[i].output = output)

\* AddPanel: the matrix with one more panel
AddPanel(pm, output, chain, orientation, xOffset, yOffset) ==
    LET ps == Append(pm.panels,
                     [output |-> output, chain |-> chain,
                      orientation |-> orientation,
                      xOffset |-> xOffset, yOffset |-> yOffset])
    IN  [pm EXCEPT !.panels = ps,
                   !.width = MatrixWidth(ps, pm.panelWidth, pm.panelHeight),
                   !.height = MatrixHeight(ps, pm.panelWidth, pm.panelHeight)]

\* new PanelMatrix(panelWidth, panelHeight, invertedData)
NewPanelMatrix(pw, ph) ==
    [panelWidth |-> pw, panelHeight |-> ph, panels |-> <<>>,
     width |-> 0, height |-> 0]

\* m_panelMatrix before Init (NULL)
NoPanelMatrix == NewPanelMatrix(0, 0)

(***************************************************************************)
(* Init: geometry, gamma curve, environment checks.                        *)
(***************************************************************************)
\* a swap that lacks the cases 'U' and 'L'
FlipOrientation_OneWay(o) ==
    CASE o = "N" -> "U"
      [] o = "R" -> "L"
      [] OTHER -> o

\* the legacy swap of orientation codes
FlipOrientation(o) ==
    CASE o = "N" -> "U"
      [] o = "U" -> "N"
      [] o = "R" -> "L"
      [] o = "L" -> "R"
      [] OTHER -> o

\* m_flippedLayout from the configuration
FlippedLayout(config) ==
    IF config.cfgVersion # 0
    THEN (IF config.cfgVersion >= 2 THEN 0 ELSE 1)
    ELSE 1

\* the orientation a panel is registered with
PanelOrientation(p, flipped) ==
    LET orientation == IF p.orientation # "" THEN p.orientation ELSE "N"
    IN  IF flipped # 0 THEN FlipOrientation(orientation) ELSE orientation

\* the panel loop of Init over the panels not yet read: st holds
\* m_panelMatrix, m_outputs and m_longestChain
RECURSIVE ReadPanels(_, _, _)
ReadPanels(st, ps, flipped) ==
    IF ps = <<>> THEN st
    ELSE LET p == Head(ps)
         IN  ReadPanels(
                 [pm |-> AddPanel(st.pm, p.outputNumber, p.panelNumber,
                                  PanelOrientation(p, flipped),
                                  p.xOffset, p.yOffset),
                  outputs |-> IF p.outputNumber > st.outputs
                              THEN p.outputNumber ELSE st.outputs,
                  longestChain |-> IF p.panelNumber > st.longestChain
                                   THEN p.panelNumber ELSE st.longestChain],
                 Tail(ps), flipped)

\* an exponent above the range is brought down to its upper end
GammaUsed_Clamped(config) ==
    LET gamma == IF config.gamma # 0 THEN config.gamma ELSE 100
    IN  IF gamma <= 1 THEN 100 ELSE IF gamma > 5000 THEN 5000 ELSE gamma

\* the gamma exponent Init uses, in hundredths.  gamma is a float: 0.01
\* becomes 0.00999999977..., which is below the double 0.01 it is compared
\* with, while 50.0 is exact
GammaUsed(config) ==
    LET gamma == IF config.gamma # 0 THEN config.gamma ELSE 100
    IN  IF gamma <= 1 \/ gamma > 5000 THEN 100 ELSE gamma

\* round(255 * (x / 255) ^ 50.0) for x = 226..254; it is 0 below 226
Pow50 ==
    <<1, 1, 1, 1, 1, 2, 2, 3, 3, 4, 5, 7, 8, 10, 12, 15, 19, 23, 28, 35, 42,
      52, 63, 78, 95, 116, 141, 172, 210>>

\* round(v) of the square root of n
RoundSqrt(n) ==
    CHOOSE v \in 0..255 :
        /\ (2 * v + 1) * (2 * v + 1) > 4 * n
        /\ (v = 0 \/ (2 * v - 1) * (2 * v - 1) <= 4 * n)

\* a table that is brightest at level 0
GammaEntry_Inverted(x, gamma) == 255 - x

\* round(255 * (x / 255) ^ gamma), clamped to 0..255, for the exponents
\* 0.5, 1.0, 2.0, 3.0 and 50.0 (none of the values is within rounding error
\* of a half)
GammaEntry(x, gamma) ==
    LET f == CASE gamma = 100 -> x
               [] gamma = 200 -> (2 * x * x + 255) \div 510
               [] gamma = 300 -> (2 * x * x * x + 65025) \div 130050
               [] gamma = 50 -> RoundSqrt(255 * x)
               [] gamma = 5000 -> IF x < 226 THEN 0
                                  ELSE IF x = 255 THEN 255 ELSE Pow50[x - 225]
    IN  IF f > 255 THEN 255 ELSE IF f < 0 THEN 0 ELSE f

GammaCurve(gamma) == [x \in 0..255 |-> GammaEntry(x, gamma)]

\* the part of Init before the environment checks
InitGeometry(config) ==
    LET panelWidth == IF config.panelWidth = 0 THEN DefaultPanelWidth
                      ELSE config.panelWidth
        panelHeight == IF config.panelHeight = 0 THEN DefaultPanelHeight
                       ELSE config.panelHeight
        flipped == FlippedLayout(config)
        st == ReadPanels([pm |-> NewPanelMatrix(panelWidth, panelHeight),
                          outputs |-> 0, longestChain |-> 0],
                         config.panels, flipped)
        outputs == st.outputs + 1
        longestChain == st.longestChain + 1
    IN  [panelWidth |-> panelWidth, panelHeight |-> panelHeight,
         flippedLayout |-> flipped, panelMatrix |-> st.pm,
         outputs |-> outputs, longestChain |-> longestChain,
         rows |-> outputs * panelHeight,
         channelCount |-> st.pm.width * st.pm.height * 3,
         frameSize |-> outputs * longestChain * panelHeight * panelWidth * 3,
         rowSize |-> longestChain * panelWidth * 3]

WarnNoLink == "ColorLight: Configured interface does not have link"
WarnSpeed == "ColorLight: Configured interface is not 1000Mbps Capable"
WarnSocket == "ColorLight: Error creating raw socket"
WarnIndex == "ColorLight: Error getting index of interface"
WarnBind == "ColorLight: Could not bind to interface"
WarnSlow == "Repeated frames taking more than 20ms to send to ColorLight"

\* a warning as the WarningHolder receives it (timeout 0: none)
Warning(text, timeout) == [text |-> text, timeout |-> timeout]

\* the descriptor socket() returns when it succeeds
SocketFd(env) == IF env.socketOk THEN 3 ELSE -1

\* ifstate != "up"
LinkDown(env) == ~env.linkUp

\* a link-speed check that lets every speed pass
SpeedTooLow_Never(env) == FALSE

\* ifspeed < 1000
SpeedTooLow(env) == env.ifspeed < MinLinkSpeed

\* a bind check that takes every result for success
BindFailed_Never(env) == FALSE

\* bind(...) == -1
BindFailed(env) == ~env.bindOk

\* the environment checks of Init, in program order: the checks and
\* acquisitions performed, the warning raised, the descriptor held and
\* whether Init goes on to build the packet list
EnvChecks(env) ==
    IF LinkDown(env)
    THEN [ok |-> FALSE, steps |-> <<"operstate">>,
          warnings |-> <<Warning(WarnNoLink, 0)>>, fd |-> -1]
    ELSE IF SpeedTooLow(env)
    THEN [ok |-> FALSE, steps |-> <<"operstate", "speed">>,
          warnings |-> <<Warning(WarnSpeed, 0)>>, fd |-> -1]
    ELSE IF SocketFd(env) = -1
    THEN [ok |-> FALSE, steps |-> <<"operstate", "speed", "socket">>,
          warnings |-> <<Warning(WarnSocket, 0)>>, fd |-> -1]
    ELSE IF ~env.ioctlOk
    THEN [ok |-> FALSE, steps |-> <<"operstate", "speed", "socket", "ioctl">>,
          warnings |-> <<Warning(WarnIndex, 0)>>, fd |-> SocketFd(env)]
    ELSE IF BindFailed(env)
    THEN [ok |-> FALSE,
          steps |-> <<"operstate", "speed", "socket", "ioctl", "bind">>,
          warnings |-> <<Warning(WarnBind, 0)>>, fd |-> SocketFd(env)]
    ELSE [ok |-> TRUE,
          steps |-> <<"operstate", "speed", "socket", "ioctl", "bind">>,
          warnings |-> <<>>, fd |-> SocketFd(env)]

(***************************************************************************)
(* Init: the packet list.  An iovec points either at a heap block of its   *)
(* own (region "heap", with the block's bytes) or into m_outputFrame       *)
(* (region "frame", with the offset).                                      *)
(***************************************************************************)
HeapPtr(bytes) == [region |-> "heap", bytes |-> bytes, off |-> 0]
FramePtr(off) == [region |-> "frame", bytes |-> <<>>, off |-> off]
NullPtr == [region |-> "null", bytes |-> <<>>, off |-> 0]
Iovec(base, len) == [iov_base |-> base, iov_len |-> len]
\* a value-initialized iovec, as vector::resize leaves it
NullIovec == Iovec(NullPtr, 0)

\* addresses written the other way round
SetHostMACs_Swapped(hdr) ==
    LET dhost == <<34, 34, 51, 68, 85, 102>>
        shost == <<17, 34, 51, 68, 85, 102>>
    IN  [i \in DOMAIN hdr |->
            IF i < 6 THEN dhost[i + 1]
            ELSE IF i < 12 THEN shost[i - 6 + 1]
            ELSE hdr[i]]

\* the header bytes after SetHostMACs: destination 11:22:33:44:55:66,
\* source 22:22:33:44:55:66
SetHostMACs(hdr) ==
    LET dhost == <<17, 34, 51, 68, 85, 102>>
        shost == <<34, 34, 51, 68, 85, 102>>
    IN  [i \in DOMAIN hdr |->
            IF i < 6 THEN dhost[i + 1]
            ELSE IF i < 12 THEN shost[i - 6 + 1]
            ELSE hdr[i]]

\* a zeroed header block of len bytes with ether_type and the MACs set
EtherHeader(len, etherType) ==
    SetHostMACs([i \in 0..(len - 1) |->
                    IF i \in {12, 13} THEN Htons(etherType)[i - 12 + 1] ELSE 0])

\* the two iovecs of the first (0x0101) packet
FirstInitPacket ==
    <<Iovec(HeapPtr(EtherHeader(ETHER_HEADER_LEN, 257)), ETHER_HEADER_LEN),
      Iovec(HeapPtr(Zeros(CL5A75_0101_PACKET_DATA_LEN)),
            CL5A75_0101_PACKET_DATA_LEN)>>

\* the two iovecs of the second (0x0AFF) packet
SecondInitPacket ==
    <<Iovec(HeapPtr(EtherHeader(ETHER_HEADER_LEN, 2815)), ETHER_HEADER_LEN),
      Iovec(HeapPtr([i \in 0..(CL5A75_0AFF_PACKET_DATA_LEN - 1) |->
                        IF i < 3 THEN 255 ELSE 0]),
            CL5A75_0AFF_PACKET_DATA_LEN)>>

\* a chunk that is always of the maximum size
BytesInPacket_Max(offset, rowSize) == CL5A75_MAX_CHANNELS_PER_PACKET

\* bytesInPacket of the chunk of a row that starts at offset
BytesInPacket(offset, rowSize) ==
    IF (offset + CL5A75_MAX_CHANNELS_PER_PACKET) > rowSize
    THEN rowSize - offset
    ELSE CL5A75_MAX_CHANNELS_PER_PACKET

\* a header that announces the offset in bytes
RowHeader_ByteOffset(r, offset, bytesInPacket) ==
    LET hSize == ETHER_HEADER_LEN + CL5A75_HEADER_LEN
        eh == EtherHeader(hSize, 21760 + (r \div 256))
        pixelsInPacket == bytesInPacket \div 3
        data == <<r % 256,
                  (offset \div 256) % 256, offset % 256,
                  (pixelsInPacket \div 256) % 256, pixelsInPacket % 256,
                  8, 128>>
    IN  [i \in 0..(hSize - 1) |->
            IF i >= ETHER_HEADER_LEN THEN data[i - ETHER_HEADER_LEN + 1]
            ELSE eh[i]]

\* the header block of the chunk of row r that starts at offset
RowHeader(r, offset, bytesInPacket) ==
    LET hSize == ETHER_HEADER_LEN + CL5A75_HEADER_LEN
        eh == EtherHeader(hSize, 21760 + (r \div 256))
        pixelOffset == offset \div 3
        pixelsInPacket == bytesInPacket \div 3
        data == <<r % 256,
                  (pixelOffset \div 256) % 256, pixelOffset % 256,
                  (pixelsInPacket \div 256) % 256, pixelsInPacket % 256,
                  8, 128>>
    IN  [i \in 0..(hSize - 1) |->
            IF i >= ETHER_HEADER_LEN THEN data[i - ETHER_HEADER_LEN + 1]
            ELSE eh[i]]

\* a row chunk whose payload pointer leaves rowPtr out
RowChunk_NoRowPtr(r, offset, rowSize, rowPtr) ==
    LET bytesInPacket == BytesInPacket(offset, rowSize)
    IN  <<Iovec(HeapPtr(RowHeader(r, offset, bytesInPacket)),
                ETHER_HEADER_LEN + CL5A75_HEADER_LEN),
          Iovec(FramePtr(offset), bytesInPacket)>>

\* the two iovecs of the chunk of row r at offset; rowPtr is the offset of
\* the row in m_outputFrame
RowChunk(r, offset, rowSize, rowPtr) ==
    LET bytesInPacket == BytesInPacket(offset, rowSize)
    IN  <<Iovec(HeapPtr(RowHeader(r, offset, bytesInPacket)),
                ETHER_HEADER_LEN + CL5A75_HEADER_LEN),
          Iovec(FramePtr(rowPtr + offset), bytesInPacket)>>

\* the while loop over the chunks of row r, from offset on: the iovecs
\* written, in order
RECURSIVE RowChunks(_, _, _, _)
RowChunks(r, offset, rowSize, rowPtr) ==
    IF offset < rowSize
    THEN RowChunk(r, offset, rowSize, rowPtr)
         \o RowChunks(r, offset + BytesInPacket(offset, rowSize), rowSize, rowPtr)
    ELSE <<>>

\* the for loop over the rows r..rows-1: the iovecs written, in order
RECURSIVE RowPackets(_, _, _, _)
RowPackets(r, rows, rowSize, rowPtr) ==
    IF r < rows
    THEN RowChunks(r, 0, rowSize, rowPtr)
         \o RowPackets(r + 1, rows, rowSize, rowPtr + rowSize)
    ELSE <<>>

\* a packet count that rounds the chunks of a row down
PacketCount_Floor(rows, rowSize) ==
    2 + (rows * (rowSize \div CL5A75_MAX_CHANNELS_PER_PACKET))

\* packetCount as Init computes it
PacketCount(rows, rowSize) ==
    2 + (rows * (((rowSize - 1) \div CL5A75_MAX_CHANNELS_PER_PACKET) + 1))

\* every iovec the fill code of Init writes, in the order of p
FilledIovecs(rows, rowSize) ==
    FirstInitPacket \o SecondInitPacket \o RowPackets(0, rows, rowSize, 0)

\* m_iovecs after Init: resized to 2 * packetCount, then filled
BuildIovecs(rows, rowSize) ==
    LET written == FilledIovecs(rows, rowSize)
    IN  [i \in 0..(2 * PacketCount(rows, rowSize) - 1) |->
            IF i + 1 <= Len(written) THEN written[i + 1] ELSE NullIovec]

\* m_msgs after Init: message m is the iovecs 2m and 2m+1
BuildMsgs(packetCount) ==
    [m \in 0..(packetCount - 1) |-> [msg_iov |-> m * 2, msg_iovlen |-> 2]]

\* an empty vector
EmptyVector == [i \in {} |-> 0]

\* v.size()
Size(v) == Cardinality(DOMAIN v)

(***************************************************************************)
(* State.                                                                  *)
(***************************************************************************)
VARIABLES
    lifecycle,        \* "constructed", "initialized", "failed" (Init returned 0)
                      \* or "destroyed"
    config,           \* the configuration Init was given
    env,              \* the environment Init met
    m_panelWidth, m_panelHeight, m_outputs, m_longestChain, m_rows,
    m_rowSize, m_channelCount, m_flippedLayout, m_panelMatrix,
    m_gammaCurve, m_fd, m_outputFrame, m_iovecs, m_msgs, m_slowCount,
    initRet,          \* what Init returned (-1: not called)
    initSteps,        \* the environment checks Init performed, in order
    initP,            \* p when the fill loops of Init ended
    initRaised,       \* the warnings Init raised, in order
    raised,           \* the warnings the most recent SendData raised, in order
    pc,               \* where SendData stands: "idle", "retry", "sleep", "finish"
    now,              \* the clock, in ticks
    startTime,        \* startTime of SendData (milliseconds)
    outputCount,      \* outputCount of SendData
    done,             \* done of SendData
    prepArg,          \* the frame given to the most recent PrepData (0: none)
    retVal,           \* what the most recent SendData returned (-1: none yet)
    wire,             \* the packets the send primitive accepted in this call
    retried,          \* this SendData call has called sendMessages again
    slept,            \* this SendData call has slept
    lateRetries,      \* retries of this call begun with the deadline passed
    closeCalls,       \* the number of Close calls made
    fdCloses,         \* the descriptors given to close(), in order
    freed,            \* the indices in m_iovecs of the iov_base given to free(),
                      \* in order
    deleted,          \* the number of delete[] m_outputFrame made
    peer,             \* a second output of the same process (PairSpec)
    drawn             \* the numbers the most recent OverlayTestData drew on
                      \* the panels: <<output number, chain number>> each

geom == <<m_panelWidth, m_panelHeight, m_outputs, m_longestChain, m_rows,
          m_rowSize, m_channelCount, m_flippedLayout, m_panelMatrix,
          m_gammaCurve>>
initVars == <<lifecycle, config, env, m_fd, m_iovecs, m_msgs, initRet,
              initSteps, initP, initRaised>>
callVars == <<pc, now, startTime, outputCount, done, retVal, wire,
              retried, slept, lateRetries>>
lifeVars == <<closeCalls, fdCloses, freed, deleted>>
otherVars == <<peer, drawn>>
\* the fields of the output, and what is recorded of its calls
ownVars == <<geom, initVars, callVars, m_outputFrame, m_slowCount, raised,
             prepArg, lifeVars, drawn>>
vars == <<ownVars, peer>>

\* GetTimeMS(): the clock in whole milliseconds
GetTimeMS(t) == t \div TicksPerMS

\* the framework calls Init once, then PrepData and SendData once a frame,
\* then Close on shutdown, and nothing but Close and the destructor after
InUse == lifecycle \in {"initialized", "failed"} /\ closeCalls = 0

(***************************************************************************)
(* PrepData.                                                               *)
(***************************************************************************)
\* a mirroring that counts the chain from 1
PrepChain_FromOne(chain, longestChain, flipped) ==
    IF flipped # 0 THEN chain ELSE longestChain - chain

\* a placement that mirrors the chain in the legacy layout instead
PrepChain_MirrorLegacy(chain, longestChain, flipped) ==
    IF flipped # 0 THEN (longestChain - 1) - chain ELSE chain

\* the chain index PrepData places a panel at
PrepChain(chain, longestChain, flipped) ==
    IF flipped # 0 THEN chain ELSE (longestChain - 1) - chain

\* a destination that leaves the place in the chain out
PrepDst_NoChain(output, y, chain, pw, ph, longestChain) ==
    (((output * ph) + y) * pw * longestChain) * 3

\* the offset in m_outputFrame of row y of the panel at chain on output
PrepDst(output, y, chain, pw, ph, longestChain) ==
    ((((output * ph) + y) * pw * longestChain) + chain * pw) * 3

\* a row written to a buffer that is enlarged by a byte for it
PrepRow_Enlarged(frame, channelData, pm, gammaCurve, panel, y, dst) ==
    LET pw3 == pm.panelWidth * 3
        yw == y * pm.panelWidth * 3
    IN  [d \in 0..Cardinality(DOMAIN frame) |->
            IF d >= dst /\ d < dst + pw3
            THEN gammaCurve[channelData[StartChannel
                                        + PixelMap(pm, panel, yw + (d - dst))]]
            ELSE IF d \in DOMAIN frame THEN frame[d] ELSE 0]

\* one row of one panel written to the frame: pw3 consecutive bytes from dst
PrepRow(frame, channelData, pm, gammaCurve, panel, y, dst) ==
    LET pw3 == pm.panelWidth * 3
        yw == y * pm.panelWidth * 3
    IN  [d \in DOMAIN frame |->
            IF d >= dst /\ d < dst + pw3
            THEN gammaCurve[channelData[StartChannel
                                        + PixelMap(pm, panel, yw + (d - dst))]]
            ELSE frame[d]]

\* the rows of one panel, from row y on
RECURSIVE PrepPanel(_, _, _, _, _, _, _, _)
PrepPanel(frame, channelData, pm, gammaCurve, longestChain, flipped, i, y) ==
    IF y < pm.panelHeight
    THEN LET panel == pm.panels[i]
             chain == PrepChain(panel.chain, longestChain, flipped)
             dst == PrepDst(panel.output, y, chain, pm.panelWidth,
                            pm.panelHeight, longestChain)
         IN  PrepPanel(PrepRow(frame, channelData, pm, gammaCurve, panel, y, dst),
                       channelData, pm, gammaCurve, longestChain, flipped, i, y + 1)
    ELSE frame

\* the panels of one output, in the order of m_outputPanels[output]
RECURSIVE PrepOutput(_, _, _, _, _, _, _)
PrepOutput(frame, channelData, pm, gammaCurve, longestChain, flipped, is) ==
    IF is = <<>> THEN frame
    ELSE PrepOutput(PrepPanel(frame, channelData, pm, gammaCurve, longestChain,
                              flipped, Head(is), 0),
                    channelData, pm, gammaCurve, longestChain, flipped, Tail(is))

\* the outputs output..outputs-1
RECURSIVE PrepOutputs(_, _, _, _, _, _, _, _)
PrepOutputs(frame, channelData, pm, gammaCurve, longestChain, flipped, output, outputs) ==
    IF output < outputs
    THEN PrepOutputs(PrepOutput(frame, channelData, pm, gammaCurve, longestChain,
                                flipped, OutputPanels(pm, output)),
                     channelData, pm, gammaCurve, longestChain, flipped,
                     output + 1, outputs)
    ELSE frame

\* a PrepData that clears the buffer before it writes the panels
PrepFrame_Cleared(frame, channelData) ==
    PrepOutputs([d \in DOMAIN frame |-> 0], channelData, m_panelMatrix,
                m_gammaCurve, m_longestChain, m_flippedLayout, 0, m_outputs)

\* m_outputFrame after PrepData(channelData): no sub-matrix is configured,
\* so OverlaySubMatrices leaves channelData as it is
PrepFrame(frame, channelData) ==
    PrepOutputs(frame, channelData, m_panelMatrix, m_gammaCurve,
                m_longestChain, m_flippedLayout, 0, m_outputs)

\* the second output after construction
PeerConstructed ==
    [lifecycle |-> "constructed", pc |-> "idle", m_slowCount |-> 0,
     outputCount |-> 0, m_outputFrame |-> EmptyVector, msgCount |-> 0,
     prepArg |-> 0]

(***************************************************************************)
(* The state after construction.                                           *)
(***************************************************************************)
Init ==
    /\ lifecycle = "constructed"
    /\ config = CfgSingle
    /\ env = [linkUp |-> FALSE, ifspeed |-> 100, socketOk |-> FALSE,
              ioctlOk |-> FALSE, bindOk |-> FALSE]
    /\ m_panelWidth = 0 /\ m_panelHeight = 0
    /\ m_outputs = 0 /\ m_longestChain = 0
    /\ m_rows = 0 /\ m_rowSize = 0
    /\ m_channelCount = 0
    /\ m_flippedLayout = 0
    /\ m_panelMatrix = NoPanelMatrix
    /\ m_gammaCurve = EmptyVector
    /\ m_fd = -1
    /\ m_outputFrame = EmptyVector
    /\ m_iovecs = EmptyVector
    /\ m_msgs = EmptyVector
    /\ m_slowCount = 0
    /\ initRet = -1 /\ initSteps = <<>> /\ initP = 0
    /\ initRaised = <<>>
    /\ raised = <<>>
    /\ pc = "idle" /\ now = 0 /\ startTime = 0
    /\ outputCount = 0 /\ done = FALSE
    /\ prepArg = 0 /\ retVal = -1
    /\ wire = <<>>
    /\ retried = FALSE /\ slept = FALSE /\ lateRetries = 0
    /\ closeCalls = 0 /\ fdCloses = <<>> /\ freed = <<>> /\ deleted = 0
    /\ peer = PeerConstructed
    /\ drawn = <<>>

(***************************************************************************)
(* Init(config), met by environment e; u is what the bytes of the newly    *)
(* allocated m_outputFrame happen to hold.                                 *)
(***************************************************************************)
\* what ChannelOutput::Init(config) returns
ChannelOutputInit(c) == 1

DriverInit(c, e, u) ==
    LET g == InitGeometry(c)
        chk == EnvChecks(e)
    IN  /\ lifecycle = "constructed"
        /\ pc = "idle"
        /\ config' = c
        /\ env' = e
        /\ m_panelWidth' = g.panelWidth
        /\ m_panelHeight' = g.panelHeight
        /\ m_flippedLayout' = g.flippedLayout
        /\ m_panelMatrix' = g.panelMatrix
        /\ m_outputs' = g.outputs
        /\ m_longestChain' = g.longestChain
        /\ m_rows' = g.rows
        /\ m_channelCount' = g.channelCount
        /\ m_outputFrame' = [i \in 0..(g.frameSize - 1) |-> u]
        /\ m_gammaCurve' = GammaCurve(GammaUsed(c))
        /\ m_rowSize' = g.rowSize
        /\ initSteps' = chk.steps
        /\ initRaised' = chk.warnings
        /\ m_fd' = chk.fd
        /\ IF chk.ok
           THEN /\ m_iovecs' = BuildIovecs(g.rows, g.rowSize)
                /\ m_msgs' = BuildMsgs(PacketCount(g.rows, g.rowSize))
                /\ initP' = Len(FilledIovecs(g.rows, g.rowSize)) \div 2
                /\ initRet' = ChannelOutputInit(c)
                /\ lifecycle' = "initialized"
           ELSE /\ UNCHANGED <<m_iovecs, m_msgs, initP>>
                /\ initRet' = 0
                /\ lifecycle' = "failed"
        /\ UNCHANGED <<otherVars, callVars, m_slowCount, raised, prepArg, lifeVars>>

(***************************************************************************)
(* PrepData(channelData) with the bytes of frame f.                        *)
(***************************************************************************)
PrepData(f) ==
    /\ InUse
    /\ pc = "idle"
    /\ m_outputFrame' = PrepFrame(m_outputFrame, ChannelData(f, StartChannel + m_channelCount))
    /\ prepArg' = f
    /\ UNCHANGED <<otherVars, geom, initVars, callVars, m_slowCount, raised, lifeVars>>

(***************************************************************************)
(* OverlayTestData(channelData, ...): the test pattern and the two numbers *)
(* go to the caller's channel buffer; drawn records the numbers.           *)
(***************************************************************************)
\* chain of OverlayTestData for a panel at chain
TestChain(chain, longestChain, flipped) ==
    IF flipped # 0 THEN (longestChain - 1) - chain - 1 ELSE chain

\* the numbers drawn on the panels of one output, in the order of
\* m_outputPanels[output]
TestOutput(pm, longestChain, flipped, output) ==
    LET is == OutputPanels(pm, output)
    IN  [k \in 1..Len(is) |->
            [panel |-> is[k],
             outputNumber |-> output + 1,
             chainNumber |-> TestChain(pm.panels[is[k]].chain, longestChain,
                                       flipped) + 1]]

\* the outputs output..outputs-1
RECURSIVE TestOutputs(_, _, _, _, _)
TestOutputs(pm, longestChain, flipped, output, outputs) ==
    IF output < outputs
    THEN TestOutput(pm, longestChain, flipped, output)
         \o TestOutputs(pm, longestChain, flipped, output + 1, outputs)
    ELSE <<>>

OverlayTestData ==
    /\ InUse
    /\ pc = "idle"
    /\ drawn' = TestOutputs(m_panelMatrix, m_longestChain, m_flippedLayout,
                            0, m_outputs)
    /\ UNCHANGED <<peer, geom, initVars, callVars, m_outputFrame, m_slowCount,
                   raised, prepArg, lifeVars>>

(***************************************************************************)
(* Close(): ChannelOutput::Close() only; no field of the driver changes.   *)
(***************************************************************************)
\* the descriptors Close gives to close(): none
CloseFd(fd) == <<>>

Close ==
    /\ lifecycle \in {"initialized", "failed"}
    /\ pc = "idle"
    /\ closeCalls < MaxCloses
    /\ closeCalls' = closeCalls + 1
    /\ fdCloses' = fdCloses \o CloseFd(m_fd)
    /\ UNCHANGED <<otherVars, geom, initVars, callVars, m_outputFrame, m_slowCount,
                   raised, prepArg, freed, deleted>>

(***************************************************************************)
(* ~ColorLight5a75Output().  Without Init m_outputFrame was never          *)
(* assigned: the test of it may take it for null or not (d).               *)
(***************************************************************************)
\* a loop that frees every iov_base
DestructorNext_FreeAll(i) == i + 1

\* i of the next pass of the loop: after the first four, every other one
DestructorNext(i) == IF i >= 4 THEN i + 2 ELSE i + 1

\* the indices the loop gives to free() from i on, of n iovecs
RECURSIVE DestructorFrees(_, _)
DestructorFrees(i, n) ==
    IF i < n THEN <<i>> \o DestructorFrees(DestructorNext(i), n) ELSE <<>>

\* the descriptors the destructor gives to close()
DestructorCloses(fd) == IF fd >= 0 THEN <<fd>> ELSE <<>>

Destroy(d) ==
    /\ lifecycle # "destroyed"
    /\ pc = "idle"
    /\ d \in (IF lifecycle = "constructed" THEN {0, 1} ELSE {1})
    /\ lifecycle' = "destroyed"
    /\ freed' = freed \o DestructorFrees(0, Size(m_iovecs))
    /\ fdCloses' = fdCloses \o DestructorCloses(m_fd)
    /\ deleted' = deleted + d
    /\ UNCHANGED <<otherVars, geom, config, env, m_fd, m_iovecs, m_msgs, initRet,
                   initSteps, initP, initRaised, callVars, m_outputFrame,
                   m_slowCount, raised, prepArg, closeCalls>>

(***************************************************************************)
(* SendData(channelData) with frame f.                                     *)
(***************************************************************************)
\* what sendMessages may return for msgCount messages: an error, or the
\* number of messages of the head of the list it accepted
SendResults(msgCount) == {-1} \cup 0..msgCount

\* the time one call of sendMessages may take, in ticks
SendTicks == {0, MaxSendTicks}

\* the time one sleep_for(500us) may take, in ticks: never less than asked
SleepTimes == {1, 1 + MaxSleepJitter}

\* the bytes an iovec points at
IovBytes(iov) ==
    IF iov.iov_base.region = "frame"
    THEN [i \in 0..(iov.iov_len - 1) |-> m_outputFrame[iov.iov_base.off + i]]
    ELSE iov.iov_base.bytes

\* message m of m_msgs as it goes out
WirePacket(m) ==
    [idx |-> m,
     hdr |-> IovBytes(m_iovecs[m_msgs[m].msg_iov]),
     data |-> IovBytes(m_iovecs[m_msgs[m].msg_iov + 1])]

\* a retry that passes the whole list again
RetryFrom_Start(count) == 0

\* the first message of the slice a retry passes: &msgs[outputCount]
RetryFrom(count) == count

\* sendMessages(&msgs[from], msgCount) returning oc: the wire afterwards
Accepted(from, oc) ==
    wire \o [k \in 1..(IF oc > 0 THEN oc ELSE 0) |-> WirePacket(from + k - 1)]

\* a count that takes in the error result as well
Advance_AddError(count, oc) == count + oc

\* outputCount after sendMessages returned oc
Advance(count, oc) == IF oc > 0 THEN count + oc ELSE count

\* the first part of SendData, up to the first sendMessages
SendData_Start(f, phase, oc, dt) ==
    /\ InUse
    /\ pc = "idle"
    /\ m_slowCount < MaxSlowCount
    /\ startTime' = GetTimeMS(phase)
    /\ raised' = <<>>
    /\ retried' = FALSE /\ slept' = FALSE /\ lateRetries' = 0
    /\ done' = FALSE
    /\ IF Size(m_msgs) = 0
       THEN /\ retVal' = 0
            /\ pc' = "idle"
            /\ now' = 0
            /\ outputCount' = 0
            /\ wire' = <<>>
       ELSE /\ oc \in SendResults(Size(m_msgs))
            /\ retVal' = -1
            /\ now' = phase + dt
            /\ outputCount' = Advance(0, oc)
            /\ wire' = [k \in 1..(IF oc > 0 THEN oc ELSE 0) |-> WirePacket(k - 1)]
            /\ pc' = IF outputCount' # Size(m_msgs) THEN "retry" ELSE "finish"
    /\ UNCHANGED <<otherVars, geom, initVars, m_outputFrame, m_slowCount, prepArg,
                   lifeVars>>

\* a loop that gives up after its first retry
KeepTrying_Never(totalTime) == FALSE

\* a deadline check that allows one millisecond more
KeepTrying_OneMore(totalTime) == totalTime < DeadlineMS + 1

\* whether the loop goes on to sleep after an incomplete retry
KeepTrying(totalTime) == totalTime < DeadlineMS

\* one pass of the retry loop, up to the sleep
SendData_Retry(oc, dt) ==
    /\ pc = "retry"
    /\ oc \in SendResults(Size(m_msgs) - RetryFrom(outputCount))
    /\ retried' = TRUE
    /\ lateRetries' = IF GetTimeMS(now) - startTime >= DeadlineMS
                      THEN lateRetries + 1 ELSE lateRetries
    /\ now' = now + dt
    /\ wire' = Accepted(RetryFrom(outputCount), oc)
    /\ outputCount' = Advance(outputCount, oc)
    /\ IF outputCount' # Size(m_msgs)
       THEN IF KeepTrying(GetTimeMS(now') - startTime)
            THEN pc' = "sleep" /\ done' = done
            ELSE pc' = "finish" /\ done' = TRUE
       ELSE pc' = "finish" /\ done' = done
    /\ UNCHANGED <<otherVars, geom, initVars, m_outputFrame, m_slowCount, raised, prepArg,
                   startTime, retVal, slept, lifeVars>>

\* the sleep of the retry loop
SendData_Sleep(d) ==
    /\ pc = "sleep"
    /\ now' = now + d
    /\ slept' = TRUE
    /\ pc' = "retry"
    /\ UNCHANGED <<otherVars, geom, initVars, m_outputFrame, m_slowCount, raised, prepArg,
                   startTime, outputCount, done, retVal, wire, retried,
                   lateRetries, lifeVars>>

\* a counter that any accepted packet resets
SlowCount_ResetOnPartial(slowCount, count, msgCount) ==
    IF count = 0 THEN slowCount + 1 ELSE 0

\* m_slowCount after a frame that ended with count of msgCount sent
SlowCount(slowCount, count, msgCount) ==
    IF count # msgCount THEN slowCount + 1 ELSE 0

\* a warning raised one slow frame early
SlowWarnings_AtThreshold(slowCount, count, msgCount) ==
    IF count # msgCount /\ slowCount + 1 >= SlowWarnThreshold
    THEN <<Warning(WarnSlow, SlowWarnTimeout)>>
    ELSE <<>>

\* the warnings the accounting of such a frame raises
SlowWarnings(slowCount, count, msgCount) ==
    IF count # msgCount /\ slowCount + 1 > SlowWarnThreshold
    THEN <<Warning(WarnSlow, SlowWarnTimeout)>>
    ELSE <<>>

\* a result that counts the packets sent
SendDataResult_Packets(count, msgCount) == count

\* a result that reports a slow frame as a failure
SendDataResult_ZeroOnSlow(count, msgCount) ==
    IF count # msgCount THEN 0 ELSE m_channelCount

\* what SendData returns after transmitting
SendDataResult(count, msgCount) == m_channelCount

\* the part of SendData after the loop
SendData_Finish ==
    /\ pc = "finish"
    /\ m_slowCount' = SlowCount(m_slowCount, outputCount, Size(m_msgs))
    /\ raised' = SlowWarnings(m_slowCount, outputCount, Size(m_msgs))
    /\ retVal' = SendDataResult(outputCount, Size(m_msgs))
    /\ pc' = "idle"
    /\ now' = 0
    /\ UNCHANGED <<otherVars, geom, initVars, m_outputFrame, prepArg, startTime,
                   outputCount, done, wire, retried, slept, lateRetries,
                   lifeVars>>

\* the steps of a SendData call under way, with sends taking a time of
\* sendTicks and sleeps one of sleepTimes
SendDataStep(sendTicks, sleepTimes) ==
    \/ \E oc \in SendResults(Size(m_msgs)), dt \in sendTicks : SendData_Retry(oc, dt)
    \/ \E d \in sleepTimes : SendData_Sleep(d)
    \/ SendData_Finish

\* the calls the framework makes, with configurations of configs
Calls(configs, sendTicks) ==
    \/ \E c \in configs, e \in Envs, u \in UninitBytes : DriverInit(c, e, u)
    \/ \E f \in Frames : PrepData(f)
    \/ Close
    \/ \E d \in {0, 1} : Destroy(d)
    \/ \E f \in Frames, phase \in 0..(TicksPerMS - 1),
          oc \in SendResults(Size(m_msgs)), dt \in sendTicks :
            SendData_Start(f, phase, oc, dt)

Next ==
    \/ Calls(Configs, SendTicks)
    \/ SendDataStep(SendTicks, SleepTimes)

Spec == Init /\ [][Next]_vars

\* the thread running SendData keeps running
FairSpec == Spec /\ WF_vars(SendDataStep(SendTicks, SleepTimes))

\* a congested link: every send takes half the deadline, every sleep is long
SlowSendTicks == {(DeadlineMS * TicksPerMS) \div 3}
LongSleepTimes == {1 + MaxSleepJitter}

GeomNext ==
    \/ Calls(GeomConfigs, SlowSendTicks)
    \/ SendDataStep(SlowSendTicks, LongSleepTimes)

\* the driver on the wider geometries, over a congested link
GeomSpec == Init /\ [][GeomNext]_vars

\* the gamma values of the configurations of EdgeSpec, in hundredths: absent,
\* negative, the ends of the range, inside it and above it
GammaValues == {-100, 0, 1, 50, 300, 5000, 5001}
GammaConfigs == {[CfgSingle EXCEPT !.gamma = g] : g \in GammaValues}

\* a link that stalls: a send returns at once or when the deadline has passed
StallSendTicks == {0, DeadlineMS * TicksPerMS}

EdgeNext ==
    \/ Calls(GammaConfigs, StallSendTicks)
    \/ SendDataStep(StallSendTicks, LongSleepTimes)

\* the driver with gamma values in and out of range, over a link that stalls
EdgeSpec == Init /\ [][EdgeNext]_vars

WallNext ==
    \/ Calls(WallConfigs, SlowSendTicks)
    \/ OverlayTestData
    \/ SendDataStep(SlowSendTicks, LongSleepTimes)

\* the driver on walls of several panels, over a congested link
WallSpec == Init /\ [][WallNext]_vars

(***************************************************************************)
(* Two outputs in one process.  The first is the output of the variables   *)
(* above ("own"), the second is held in peer; each is driven by a thread   *)
(* of its own and the steps of the two interleave.  The second output      *)
(* meets a healthy interface, and its clock is left open: whether the      *)
(* deadline has passed after a retry is its environment's choice.          *)
(***************************************************************************)
PeerConfig == CfgTwoOutputs
PeerGeometry == InitGeometry(PeerConfig)

\* a slow-frame counter that is one for the class
SlowCountOwner_Static(self) == "own"

\* the output whose m_slowCount a call on output self reads and updates:
\* m_slowCount is a member, set in the constructor's initializer list
SlowCountOwner(self) == self

\* the output whose m_msgs, m_iovecs and m_outputFrame a call on output
\* self uses
BufferOwner(self) == self

PeerInit(u) ==
    /\ peer.lifecycle = "constructed"
    /\ peer' = [peer EXCEPT
                   !.lifecycle = "initialized",
                   !.m_outputFrame = [i \in 0..(PeerGeometry.frameSize - 1) |-> u],
                   !.msgCount = PacketCount(PeerGeometry.rows,
                                            PeerGeometry.rowSize)]
    /\ UNCHANGED ownVars

PeerPrepData(f) ==
    /\ peer.lifecycle = "initialized" /\ peer.pc = "idle"
    /\ BufferOwner("peer") = "peer"
    /\ peer' = [peer EXCEPT
                   !.m_outputFrame =
                       PrepOutputs(peer.m_outputFrame,
                                   ChannelData(f, StartChannel
                                                  + PeerGeometry.channelCount),
                                   PeerGeometry.panelMatrix,
                                   GammaCurve(GammaUsed(PeerConfig)),
                                   PeerGeometry.longestChain,
                                   PeerGeometry.flippedLayout,
                                   0, PeerGeometry.outputs),
                   !.prepArg = f]
    /\ UNCHANGED ownVars

\* m_slowCount as a call on the second output reads it
PeerSlowCount ==
    IF SlowCountOwner("peer") = "peer" THEN peer.m_slowCount ELSE m_slowCount

PeerSendData_Start(oc) ==
    /\ peer.lifecycle = "initialized" /\ peer.pc = "idle"
    /\ PeerSlowCount < MaxPeerSlowCount
    /\ oc \in SendResults(peer.msgCount)
    /\ peer' = [peer EXCEPT
                   !.outputCount = Advance(0, oc),
                   !.pc = IF Advance(0, oc) # peer.msgCount
                          THEN "retry" ELSE "finish"]
    /\ UNCHANGED ownVars

PeerSendData_Retry(oc, expired) ==
    /\ peer.pc = "retry"
    /\ oc \in SendResults(peer.msgCount - RetryFrom(peer.outputCount))
    /\ peer' = [peer EXCEPT
                   !.outputCount = Advance(peer.outputCount, oc),
                   !.pc = IF Advance(peer.outputCount, oc) # peer.msgCount
                             /\ ~expired
                          THEN "retry" ELSE "finish"]
    /\ UNCHANGED ownVars

PeerSendData_Finish ==
    /\ peer.pc = "finish"
    /\ IF SlowCountOwner("peer") = "peer"
       THEN /\ peer' = [peer EXCEPT
                          !.m_slowCount = SlowCount(peer.m_slowCount,
                                                    peer.outputCount,
                                                    peer.msgCount),
                          !.pc = "idle"]
            /\ UNCHANGED ownVars
       ELSE /\ peer' = [peer EXCEPT !.pc = "idle"]
            /\ m_slowCount' = SlowCount(m_slowCount, peer.outputCount,
                                        peer.msgCount)
            /\ UNCHANGED <<geom, initVars, callVars, m_outputFrame, raised,
                           prepArg, lifeVars, drawn>>

\* the steps of the thread that drives the second output
PeerStep ==
    \/ \E u \in UninitBytes : PeerInit(u)
    \/ \E f \in Frames : PeerPrepData(f)
    \/ \E oc \in SendResults(peer.msgCount) : PeerSendData_Start(oc)
    \/ \E oc \in SendResults(peer.msgCount), expired \in BOOLEAN :
          PeerSendData_Retry(oc, expired)
    \/ PeerSendData_Finish

\* the healthy interface
GoodEnv ==
    [linkUp |-> TRUE, ifspeed |-> 1000, socketOk |-> TRUE, ioctlOk |-> TRUE,
     bindOk |-> TRUE]

\* the steps of the thread that drives the first output
OwnStep ==
    \/ \E u \in UninitBytes : DriverInit(CfgSingle, GoodEnv, u)
    \/ \E f \in Frames : PrepData(f)
    \/ \E f \in Frames, phase \in 0..(TicksPerMS - 1),
          oc \in SendResults(Size(m_msgs)), dt \in SlowSendTicks :
            SendData_Start(f, phase, oc, dt)
    \/ SendDataStep(SlowSendTicks, LongSleepTimes)

PairNext == OwnStep \/ PeerStep

\* two outputs driven concurrently
PairSpec == Init /\ [][PairNext]_vars

(***************************************************************************)
(* Properties.                                                             *)
(***************************************************************************)
MsgCount == Size(m_msgs)
InCall == pc # "idle"
\* a SendData call has returned and nothing was initialized since
Returned == pc = "idle" /\ retVal # -1
\* the step that enters SendData and makes the first send
IsStartStep == pc = "idle" /\ pc' # "idle"

\* the row number, pixel offset and pixel count a row packet announces
WireRow(e) == e.hdr[13] * 256 + e.hdr[14]
WirePixelOffset(e) == e.hdr[15] * 256 + e.hdr[16]
WirePixelCount(e) == e.hdr[17] * 256 + e.hdr[18]
IsRowPacket(e) == e.idx >= 2

\* the bytes of frame at the place a row packet announces
AnnouncedBytes(frame, e) ==
    [i \in 0..(WirePixelCount(e) * 3 - 1) |->
        frame[(WireRow(e) * m_longestChain * m_panelWidth
               + WirePixelOffset(e)) * 3 + i]]

\* the frame as the most recent PrepData left it
LastPrepared ==
    IF prepArg = 0 THEN m_outputFrame
    ELSE PrepFrame(m_outputFrame, ChannelData(prepArg, StartChannel + m_channelCount))

\* C1 (as claimed): SendData runs PrepData on its own channel buffer
\* before the first transmission attempt, so the row packets the first
\* attempt gets accepted carry the frame derived from that buffer.
C1_SendDataPrepsItsBuffer ==
    [][\A f \in Frames :
          (\E phase \in 0..(TicksPerMS - 1), oc \in SendResults(MsgCount),
              dt \in SendTicks : SendData_Start(f, phase, oc, dt))
          => \A k \in DOMAIN wire' :
                IsRowPacket(wire'[k]) =>
                  wire'[k].data
                    = AnnouncedBytes(
                          PrepFrame(m_outputFrame,
                                    ChannelData(f, StartChannel + m_channelCount)),
                          wire'[k])]_vars

\* C1 (amended): SendData does not run PrepData; every row packet a call
\* gets accepted carries, for the row and pixel offset its header
\* announces, the bytes of the DeviceScanBuffer as the most recent PrepData
\* call left it (as allocated, when there was none).
C1_RowPacketsCarryLastPrepData ==
    InCall =>
      \A k \in DOMAIN wire :
          IsRowPacket(wire[k]) =>
            wire[k].data = AnnouncedBytes(LastPrepared, wire[k])

C1_Witness ==
    /\ pc = "finish" /\ retried /\ prepArg = 2
    /\ outputCount = MsgCount /\ Len(wire) = 4
    /\ wire[3].data # wire[4].data

\* C2 (as claimed): a SendData call in which at least one packet was
\* accepted, also one that ended with packets unsent, leaves the slow-frame
\* counter at 0.
C2_ResetOnAnyAcceptedPacket ==
    (Returned /\ Len(wire) >= 1) => m_slowCount = 0

\* C2 (amended): SendData resets the slow-frame counter to zero exactly
\* when the call ends with every packet of the list accepted, at the first
\* attempt or after retries; a call that ends with packets unsent leaves it
\* above zero, whether or not some packets were accepted.
C2_ResetExactlyWhenAllSent ==
    (Returned /\ MsgCount > 0) =>
        /\ (outputCount = MsgCount => m_slowCount = 0)
        /\ (outputCount # MsgCount => m_slowCount > 0)

C2_Witness ==
    /\ Returned /\ Len(wire) >= 1 /\ outputCount # MsgCount
    /\ m_slowCount = 2

\* C3: over one SendData call the packets are accepted at most once each
\* and in list order (the two control packets, then the rows ascending),
\* and every retry starts at the first packet not yet accepted.
C3_RetriesSendUnsentSuffix ==
    /\ \A k \in DOMAIN wire : wire[k].idx = k - 1
    /\ \A j, k \in DOMAIN wire :
          (j < k /\ IsRowPacket(wire[j])) => WireRow(wire[j]) <= WireRow(wire[k])
    /\ Len(wire) <= MsgCount
    /\ pc = "retry" => RetryFrom(outputCount) = Len(wire)

C3_Witness ==
    /\ pc = "finish" /\ retried /\ slept
    /\ outputCount = MsgCount /\ Len(wire) = MsgCount /\ MsgCount = 4
    /\ WireRow(wire[3]) < WireRow(wire[4])

\* C4: SendData always terminates, also when no packet is ever accepted;
\* once a time check has seen 22 ms or more elapsed the call makes no
\* further send attempt and only returns; and at most one retry is begun
\* with the deadline already passed.
C4_SendDataTerminates ==
    /\ InCall ~> (pc = "idle")
    /\ [][(InCall /\ done) => (pc' = "idle" /\ wire' = wire /\ now' = 0)]_vars
    /\ [](done => GetTimeMS(now) - startTime >= DeadlineMS \/ pc = "idle")
    /\ [](lateRetries <= 1)

C4_Witness ==
    /\ pc = "finish" /\ done /\ wire = <<>> /\ lateRetries = 1
    /\ GetTimeMS(now) - startTime >= 22

\* C5: a SendData call that ends with packets unsent adds exactly 1 to the
\* slow-frame counter, and raises the repeated-slow-frames warning, with a
\* timeout of 30 seconds, exactly when the counter then exceeds 3: not in
\* the first three slow frames in a row, and in the fourth.
C5_SlowFrameAccounting ==
    /\ [][(pc = "finish" /\ outputCount # MsgCount) =>
            /\ m_slowCount' = m_slowCount + 1
            /\ (m_slowCount' > 3 => raised' = <<Warning(WarnSlow, 30)>>)
            /\ (m_slowCount' <= 3 => raised' = <<>>)]_vars
    /\ [](Returned => (raised # <<>> <=> (outputCount # MsgCount /\ m_slowCount > 3)))

C5_Witness ==
    /\ Returned /\ m_slowCount = 4 /\ outputCount # MsgCount
    /\ raised = <<Warning(WarnSlow, 30)>>

\* C6: when the first sendMessages call of a SendData call reports the
\* whole list sent, the call makes no other send, does not sleep, and
\* returns m_channelCount.
C6_FullFirstAttempt ==
    /\ [][(IsStartStep /\ outputCount' = MsgCount) =>
            (pc' = "finish" /\ ~retried' /\ ~slept')]_vars
    /\ [][(pc = "finish" /\ ~retried) =>
            (retVal' = m_channelCount /\ ~retried' /\ ~slept' /\ pc' = "idle")]_vars
    /\ []((InCall /\ ~retried /\ outputCount = MsgCount) => pc = "finish")

C6_Witness ==
    /\ Returned /\ ~retried /\ ~slept /\ MsgCount > 0
    /\ retVal = m_channelCount /\ Len(wire) = MsgCount

\* C7: a SendData call that gives up with packets unsent returns the same
\* value as a fully delivered frame, m_channelCount, and the next call
\* starts again from the first packet of the list.
C7_SlowFrameReturnsNormally ==
    /\ []((Returned /\ MsgCount > 0) => retVal = m_channelCount)
    /\ [][IsStartStep =>
            /\ outputCount' = Len(wire')
            /\ \A k \in DOMAIN wire' : wire'[k].idx = k - 1]_vars

C7_Witness ==
    /\ InCall /\ m_slowCount > 0 /\ ~retried
    /\ Len(wire) >= 1 /\ wire[1].idx = 0

\* every environment check of Init passes
EnvGood(e) ==
    /\ e.linkUp /\ e.ifspeed >= 1000
    /\ e.socketOk /\ e.ioctlOk /\ e.bindOk

\* C8: after an Init that failed on the link state, the link speed, the
\* socket, the interface index or the bind, the packet list is empty and
\* no later call sends anything: SendData returns 0 at once.
C8_FailedInitIsInert ==
    (initRet # -1 /\ ~EnvGood(env)) =>
        /\ initRet = 0
        /\ MsgCount = 0 /\ Size(m_iovecs) = 0
        /\ pc = "idle" /\ wire = <<>> /\ ~retried
        /\ retVal \in {-1, 0}

C8_Witness ==
    /\ initRet = 0 /\ retVal = 0 /\ prepArg # 0
    /\ env.linkUp /\ env.ifspeed >= 1000 /\ env.socketOk /\ ~env.ioctlOk

\* C9: Init returns 0 with the warning of the first failing check, in the
\* order link state, link speed, socket, bind, and performs no check and
\* acquires nothing after it.
C9_FirstFailingCheckDecides ==
    initRet # -1 =>
        /\ ~env.linkUp =>
              /\ initRet = 0 /\ initRaised = <<Warning(WarnNoLink, 0)>>
              /\ initSteps = <<"operstate">> /\ m_fd = -1 /\ MsgCount = 0
        /\ (env.linkUp /\ env.ifspeed < 1000) =>
              /\ initRet = 0 /\ initRaised = <<Warning(WarnSpeed, 0)>>
              /\ initSteps = <<"operstate", "speed">> /\ m_fd = -1 /\ MsgCount = 0
        /\ (env.linkUp /\ env.ifspeed >= 1000 /\ ~env.socketOk) =>
              /\ initRet = 0 /\ initRaised = <<Warning(WarnSocket, 0)>>
              /\ initSteps = <<"operstate", "speed", "socket">>
              /\ m_fd = -1 /\ MsgCount = 0
        /\ (env.linkUp /\ env.ifspeed >= 1000 /\ env.socketOk /\ env.ioctlOk
            /\ ~env.bindOk) =>
              /\ initRet = 0 /\ initRaised = <<Warning(WarnBind, 0)>>
              /\ initSteps = <<"operstate", "speed", "socket", "ioctl", "bind">>
              /\ MsgCount = 0

C9_Witness ==
    /\ initRet = 0 /\ ~env.linkUp /\ env.ifspeed < 1000 /\ ~env.socketOk
    /\ ~env.bindOk /\ initRaised = <<Warning(WarnNoLink, 0)>>

\* ceil(a / b)
Ceil(a, b) == (a + b - 1) \div b

\* the packet list Init builds for the 32x16 default panel
ExampleGeometry == InitGeometry(CfgDefault)
ExamplePacketCount == PacketCount(ExampleGeometry.rows, ExampleGeometry.rowSize)
ExampleFilled ==
    Len(FilledIovecs(ExampleGeometry.rows, ExampleGeometry.rowSize)) \div 2

\* C10: the packet list of an initialized output has
\* 2 + rows * ceil(rowSizeBytes / 1491) entries, with rows = outputs *
\* panelHeight and rowSizeBytes = longestChain * panelWidth * 3, the fill
\* loops of Init write exactly that many entries (18 for one 32x16 panel),
\* and no later call changes the count.
C10_PacketCount ==
    /\ [](lifecycle = "initialized" =>
            /\ m_rows = m_outputs * m_panelHeight
            /\ m_rowSize = m_longestChain * m_panelWidth * 3
            /\ MsgCount = 2 + m_rows * Ceil(m_rowSize, 1491)
            /\ initP = MsgCount
            /\ Size(m_iovecs) = 2 * MsgCount
            /\ \A i \in DOMAIN m_iovecs : m_iovecs[i] # NullIovec)
    /\ [](ExamplePacketCount = 18 /\ ExampleFilled = 18)
    /\ [][lifecycle = "initialized" =>
            (Size(m_msgs') = MsgCount /\ Size(m_iovecs') = Size(m_iovecs))]_vars

C10_Witness ==
    /\ lifecycle = "initialized" /\ MsgCount = 4 /\ m_rowSize > 1491
    /\ Returned /\ prepArg # 0

\* C11 (as claimed): Close releases the descriptor and is idempotent: once
\* Close was called the descriptor Init opened has been closed, further
\* Close calls close nothing more, and over the whole lifetime (Init, any
\* number of Close calls, destruction) it is closed exactly once.
C11_CloseReleasesDescriptor ==
    /\ (closeCalls >= 1 /\ m_fd >= 0) => fdCloses = <<m_fd>>
    /\ (lifecycle = "destroyed" /\ m_fd >= 0) => fdCloses = <<m_fd>>
    /\ m_fd < 0 => fdCloses = <<>>

\* the indices in m_iovecs of the blocks malloc returned to Init
OwnedBuffers == {i \in DOMAIN m_iovecs : m_iovecs[i].iov_base.region = "heap"}
\* the indices in m_iovecs of the pointers into m_outputFrame
AliasingPayloads ==
    {i \in DOMAIN m_iovecs : m_iovecs[i].iov_base.region = "frame"}

\* the packet list Init builds for the 32x16 default panel, and what the
\* destructor frees of it
ExampleFreed == DestructorFrees(0, 2 * ExamplePacketCount)
\* of the example, every block of its own is freed once and no other pointer
ExampleFreedOwned ==
    LET written == FilledIovecs(ExampleGeometry.rows, ExampleGeometry.rowSize)
        freedOf == ExampleFreed
    IN  /\ Len(written) = 2 * ExamplePacketCount
        /\ Len(freedOf) = 20
        /\ \A j, k \in DOMAIN freedOf : j # k => freedOf[j] # freedOf[k]
        /\ {freedOf[k] : k \in DOMAIN freedOf}
             = {i - 1 : i \in {j \in DOMAIN written :
                                  written[j].iov_base.region = "heap"}}

\* C12: the destructor gives to free() every block that Init allocated for
\* the packet list exactly once and nothing else: the header and the
\* payload of the two control entries and the header of every row-chunk
\* entry, and no row-chunk payload, which points into the DeviceScanBuffer;
\* nothing is freed before destruction.  (The 18-packet example does not
\* depend on the state: it is evaluated in the state after construction.)
C12_DestructorFreesOwnedBuffers ==
    /\ lifecycle # "destroyed" => freed = <<>>
    /\ lifecycle = "destroyed" =>
          /\ \A i \in OwnedBuffers :
                Cardinality({k \in DOMAIN freed : freed[k] = i}) = 1
          /\ \A k \in DOMAIN freed : freed[k] \in OwnedBuffers
          /\ \A i \in AliasingPayloads : \A k \in DOMAIN freed : freed[k] # i
          /\ OwnedBuffers = {i \in DOMAIN m_iovecs : i < 4 \/ i % 2 = 0}
          /\ AliasingPayloads = {i \in DOMAIN m_iovecs : i >= 4 /\ i % 2 = 1}
    /\ lifecycle = "constructed" => ExampleFreedOwned

C12_Witness ==
    /\ lifecycle = "destroyed" /\ MsgCount = 4 /\ closeCalls = 1
    /\ freed = <<0, 1, 2, 3, 4, 6>> /\ prepArg # 0 /\ Returned

\* the panels registered for place chain of output
PanelsAt(output, chain) ==
    {i \in DOMAIN m_panelMatrix.panels :
        /\ m_panelMatrix.panels[i].output = output
        /\ m_panelMatrix.panels[i].chain = chain}

\* every place of outputs x longestChain holds exactly one panel
FullWall ==
    \A output \in 0..(m_outputs - 1), chain \in 0..(m_longestChain - 1) :
        Cardinality(PanelsAt(output, chain)) = 1

\* dst of row y of panel i in PrepData
PanelRowDst(i, y) ==
    PrepDst(m_panelMatrix.panels[i].output, y,
            PrepChain(m_panelMatrix.panels[i].chain, m_longestChain,
                      m_flippedLayout),
            m_panelWidth, m_panelHeight, m_longestChain)

\* the passes of the loops of PrepData (panel i, row y) that write byte d
PrepWriters(d) ==
    {w \in (DOMAIN m_panelMatrix.panels) \X (0..(m_panelHeight - 1)) :
        /\ m_panelMatrix.panels[w[1]].output \in 0..(m_outputs - 1)
        /\ d >= PanelRowDst(w[1], w[2])
        /\ d < PanelRowDst(w[1], w[2]) + m_panelWidth * 3}

\* what pass w of PrepData writes to byte d, from the buffer of frame f
PrepValue(w, d, f) ==
    m_gammaCurve[ChannelData(f, StartChannel + m_channelCount)
                    [StartChannel
                     + PixelMap(m_panelMatrix, m_panelMatrix.panels[w[1]],
                                w[2] * m_panelWidth * 3
                                + (d - PanelRowDst(w[1], w[2])))]]

\* C13: on a wall where every place of outputs x longestChain holds
\* exactly one panel, one PrepData call writes every byte of the
\* DeviceScanBuffer exactly once: every byte has exactly one writer among
\* the rows of the panels, no write falls outside the buffer, and after
\* PrepData every byte holds what its one writer stored.
C13_PrepDataWritesEachByteOnce ==
    (initRet # -1 /\ FullWall) =>
        /\ \A d \in DOMAIN m_outputFrame : Cardinality(PrepWriters(d)) = 1
        /\ \A i \in DOMAIN m_panelMatrix.panels, y \in 0..(m_panelHeight - 1) :
              /\ PanelRowDst(i, y) >= 0
              /\ PanelRowDst(i, y) + m_panelWidth * 3 <= Size(m_outputFrame)
        /\ prepArg # 0 =>
              \A d \in DOMAIN m_outputFrame :
                  \A w \in PrepWriters(d) :
                      m_outputFrame[d] = PrepValue(w, d, prepArg)

C13_Witness ==
    /\ initRet # -1 /\ FullWall /\ prepArg # 0
    /\ m_outputs = 2 /\ m_longestChain = 2 /\ Size(m_outputFrame) = 24
    /\ \A d, e \in DOMAIN m_outputFrame : d # e => m_outputFrame[d] # m_outputFrame[e]

\* the configuration is of the legacy format: cfgVersion absent or below 2
Legacy == config.cfgVersion < 2

\* no place of the wall is given to two panels
NoSharedPlace ==
    \A output \in 0..(m_outputs - 1), chain \in 0..(m_longestChain - 1) :
        Cardinality(PanelsAt(output, chain)) <= 1

\* byte x of row y of panel i, as PrepData reads it from the buffer of
\* frame f and maps it through the gamma curve
PanelByte(i, y, x, f) ==
    m_gammaCurve[ChannelData(f, StartChannel + m_channelCount)
                    [StartChannel
                     + PixelMap(m_panelMatrix, m_panelMatrix.panels[i],
                                y * m_panelWidth * 3 + x)]]

\* after PrepData, every panel's rows stand in the DeviceScanBuffer at the
\* chain index placed(i)
PanelsPlacedAt(placed(_)) ==
    \A i \in DOMAIN m_panelMatrix.panels, y \in 0..(m_panelHeight - 1),
       x \in 0..(m_panelWidth * 3 - 1) :
        m_outputFrame[PrepDst(m_panelMatrix.panels[i].output, y, placed(i),
                              m_panelWidth, m_panelHeight, m_longestChain) + x]
          = PanelByte(i, y, x, prepArg)

\* the chain position of panel i mirrored, and as configured
MirroredChain(i) == (m_longestChain - 1) - m_panelMatrix.panels[i].chain
ConfiguredChain(i) == m_panelMatrix.panels[i].chain

\* C14 (as claimed): in the legacy layout (cfgVersion absent or below 2)
\* PrepData places a panel at the mirrored chain index
\* longestChain - 1 - chainPosition, and with cfgVersion >= 2 at the
\* unmirrored chainPosition.
C14_LegacyMirrorsChain ==
    (initRet # -1 /\ prepArg # 0 /\ NoSharedPlace) =>
        IF Legacy THEN PanelsPlacedAt(MirroredChain)
        ELSE PanelsPlacedAt(ConfiguredChain)

\* C14 (amended): it is the other way round.  In the legacy layout
\* (cfgVersion absent or below 2) PrepData places a panel at the
\* unmirrored chainPosition, and with cfgVersion >= 2 at the mirrored
\* index longestChain - 1 - chainPosition (no two panels sharing a place).
C14_CurrentLayoutMirrorsChain ==
    (initRet # -1 /\ prepArg # 0 /\ NoSharedPlace) =>
        IF Legacy THEN PanelsPlacedAt(ConfiguredChain)
        ELSE PanelsPlacedAt(MirroredChain)

C14_Witness ==
    /\ initRet # -1 /\ prepArg # 0 /\ NoSharedPlace
    /\ ~Legacy /\ m_longestChain = 2 /\ Len(m_panelMatrix.panels) = 2
    /\ m_outputFrame[0] = PanelByte(2, 0, 0, prepArg)
    /\ m_outputFrame[0] # PanelByte(1, 0, 0, prepArg)

\* orientation codes a configuration may give (the first character counts)
OrientationCodes == {"N", "U", "R", "L", "X", "D", "n"}

\* the orientation code panel i of the configuration asks for
GivenOrientation(i) ==
    IF config.panels[i].orientation = "" THEN "N"
    ELSE config.panels[i].orientation

MsgHeader(m) == m_iovecs[m_msgs[m].msg_iov].iov_base.bytes
MsgPayload(m) == m_iovecs[m_msgs[m].msg_iov + 1]

\* the fields of a row header: Ethernet type, and the seven bytes after
\* the Ethernet header
HdrEtherType(h) == h[12] * 256 + h[13]
HdrRowLow(h) == h[14]
HdrPixelOffset(h) == h[15] * 256 + h[16]
HdrPixelCount(h) == h[17] * 256 + h[18]

\* the row packets of the list, and the row each belongs to: every row
\* has the same number of chunks
RowMsgs == {m \in DOMAIN m_msgs : m >= 2}
ChunksPerRow == (MsgCount - 2) \div m_rows
RowOfMsg(m) == (m - 2) \div ChunksPerRow
FirstMsgOfRow(r) == 2 + r * ChunksPerRow

\* the pixel counts announced by the messages from..to-1, added up
RECURSIVE PixelCounts(_, _)
PixelCounts(from, to) ==
    IF from < to
    THEN HdrPixelCount(MsgHeader(from)) + PixelCounts(from + 1, to)
    ELSE 0

\* row numbers on both sides of a multiple of 256
HeaderRows == {0, 1, 255, 256, 257, 511, 512, 1000}

\* C16: the header of every chunk of every row r has Ethernet type
\* 0x5500 + (r >> 8), byte 0 = r mod 256, bytes 1-2 the pixel offset of the
\* chunk in the row and bytes 3-4 its pixel count, both big-endian, bytes
\* 5-6 = 0x08, 0x80; in a row the pixel offset of a chunk is the sum of the
\* pixel counts of the chunks before it, and the pixel counts of a row add
\* up to longestChain x panelWidth.
C16_RowHeaders ==
    /\ lifecycle = "initialized" =>
          /\ \A m \in RowMsgs :
                LET h == MsgHeader(m)
                    r == RowOfMsg(m)
                IN  /\ Size(h) = 21
                    /\ HdrEtherType(h) = 21760 + (r \div 256)
                    /\ HdrRowLow(h) = r % 256
                    /\ HdrPixelOffset(h) = PixelCounts(FirstMsgOfRow(r), m)
                    /\ HdrPixelCount(h) * 3 = MsgPayload(m).iov_len
                    /\ HdrPixelCount(h) > 0
                    /\ h[19] = 8 /\ h[20] = 128
          /\ \A r \in 0..(m_rows - 1) :
                PixelCounts(FirstMsgOfRow(r), FirstMsgOfRow(r + 1))
                  = m_longestChain * m_panelWidth
    /\ \A r \in HeaderRows :
          LET h == RowHeader(r, 1491, 3)
          IN  /\ h[12] = 85 /\ h[13] = r \div 256 /\ h[14] = r % 256
              /\ HdrPixelOffset(h) = 497 /\ HdrPixelCount(h) = 1

C16_Witness ==
    /\ lifecycle = "initialized" /\ MsgCount = 4 /\ m_rows = 1
    /\ HdrPixelOffset(MsgHeader(2)) = 0 /\ HdrPixelCount(MsgHeader(2)) = 497
    /\ MsgHeader(2)[17] = 1 /\ MsgHeader(2)[18] = 241
    /\ HdrPixelOffset(MsgHeader(3)) = 497 /\ HdrPixelCount(MsgHeader(3)) = 1

\* the first byte of the DeviceScanBuffer after the payload of message m
PayloadEnd(m) == MsgPayload(m).iov_base.off + MsgPayload(m).iov_len

\* the row packets whose payload holds byte d of the DeviceScanBuffer
CarriedBy(d) ==
    {m \in RowMsgs : MsgPayload(m).iov_base.off <= d /\ d < PayloadEnd(m)}

\* C17: the payloads of the row chunks point into the DeviceScanBuffer and
\* tile it: none is longer than 1491 bytes, in list order each begins
\* where the one before ends, the first at byte 0 and the last ending at
\* outputs x longestChain x panelHeight x panelWidth x 3, the size of the
\* buffer, so that every byte of it is carried by exactly one packet; the
\* payloads of the two control packets are blocks of their own.
C17_PayloadsTileFrame ==
    lifecycle = "initialized" =>
        /\ \A m \in RowMsgs :
              /\ MsgPayload(m).iov_base.region = "frame"
              /\ MsgPayload(m).iov_len > 0
              /\ MsgPayload(m).iov_len <= 1491
              /\ MsgPayload(m).iov_base.off
                   = (IF m = 2 THEN 0 ELSE PayloadEnd(m - 1))
        /\ PayloadEnd(MsgCount - 1)
             = m_outputs * m_longestChain * m_panelHeight * m_panelWidth * 3
        /\ PayloadEnd(MsgCount - 1) = Size(m_outputFrame)
        /\ \A d \in DOMAIN m_outputFrame : Cardinality(CarriedBy(d)) = 1
        /\ \A m \in {0, 1} : MsgPayload(m).iov_base.region = "heap"

C17_Witness ==
    /\ lifecycle = "initialized" /\ m_rowSize = 1494 /\ prepArg # 0
    /\ MsgPayload(2).iov_len = 1491 /\ MsgPayload(3).iov_base.off = 1491
    /\ MsgPayload(3).iov_len = 3
    /\ Returned /\ Len(wire) = MsgCount
    /\ Size(wire[3].data) = 1491 /\ Size(wire[4].data) = 3

\* the destination and the source address of a header block
HdrDest(h) == [i \in 1..6 |-> h[i - 1]]
HdrSource(h) == [i \in 1..6 |-> h[i + 5]]

\* C18: the first entry of the packet list is the 0x0101 packet, with a
\* payload of 98 zero bytes, the second the 0x0AFF packet, with a payload
\* of 63 bytes of which bytes 0-2 are 0xFF and the others 0; every packet
\* has destination 11:22:33:44:55:66 and source 22:22:33:44:55:66; and in
\* every SendData call the two control packets go out first, in that
\* order, before any row packet.
C18_ControlPacketsFirst ==
    /\ lifecycle = "initialized" =>
          /\ Size(MsgHeader(0)) = 14 /\ HdrEtherType(MsgHeader(0)) = 257
          /\ MsgPayload(0).iov_len = 98
          /\ MsgPayload(0).iov_base.bytes = [i \in 0..97 |-> 0]
          /\ Size(MsgHeader(1)) = 14 /\ HdrEtherType(MsgHeader(1)) = 2815
          /\ MsgPayload(1).iov_len = 63
          /\ MsgPayload(1).iov_base.bytes
               = [i \in 0..62 |-> IF i <= 2 THEN 255 ELSE 0]
          /\ \A m \in DOMAIN m_msgs :
                /\ HdrDest(MsgHeader(m)) = <<17, 34, 51, 68, 85, 102>>
                /\ HdrSource(MsgHeader(m)) = <<34, 34, 51, 68, 85, 102>>
          /\ \A m \in RowMsgs : HdrEtherType(MsgHeader(m)) \div 256 = 85
    /\ \A k \in DOMAIN wire :
          /\ HdrDest(wire[k].hdr) = <<17, 34, 51, 68, 85, 102>>
          /\ HdrSource(wire[k].hdr) = <<34, 34, 51, 68, 85, 102>>
          /\ k = 1 => (HdrEtherType(wire[k].hdr) = 257
                        /\ wire[k].data = [i \in 0..97 |-> 0])
          /\ k = 2 => (HdrEtherType(wire[k].hdr) = 2815
                        /\ wire[k].data = [i \in 0..62 |-> IF i <= 2 THEN 255 ELSE 0])
          /\ k >= 3 <=> HdrEtherType(wire[k].hdr) \div 256 = 85

C18_Witness ==
    /\ InCall /\ retried /\ Len(wire) = 3
    /\ HdrEtherType(wire[1].hdr) = 257 /\ HdrEtherType(wire[2].hdr) = 2815
    /\ HdrEtherType(wire[3].hdr) = 21760

\* C19 (as claimed): for a configuration without panels Init ends with
\* outputs = 1, longestChain = 1 and no panel registered, and reports a
\* failure whatever the network environment is, without building a packet
\* list for the wall.
C19_NoPanelsIsRejected ==
    (initRet # -1 /\ config.panels = <<>>) =>
        /\ m_outputs = 1 /\ m_longestChain = 1
        /\ Len(m_panelMatrix.panels) = 0
        /\ initRet = 0
        /\ MsgCount = 0 /\ Size(m_iovecs) = 0

PreparedFresh(u, f) ==
    PrepFrame([d \in DOMAIN m_outputFrame |-> u],
              ChannelData(f, StartChannel + m_channelCount))

\* C21 (as claimed): PrepData is deterministic: after PrepData the
\* DeviceScanBuffer holds the bytes that PrepData with the same channel
\* buffer leaves on any output initialized from the same configuration,
\* whatever was prepared before and whatever its buffer held when it was
\* allocated.
C21_PrepDataDeterministic ==
    (initRet \notin {-1, 0} /\ prepArg # 0) =>
        \A u \in UninitBytes : m_outputFrame = PreparedFresh(u, prepArg)

\* C22: after Init neither PrepData nor SendData allocates or resizes
\* anything: no step of an initialized output changes the size of the
\* DeviceScanBuffer, the number of packet entries, a header byte or the
\* payload range of an entry, and the steps of SendData leave the contents
\* of the DeviceScanBuffer as they are.
C22_NoPerFrameAllocation ==
    [][(lifecycle = "initialized" /\ lifecycle' = "initialized") =>
          /\ DOMAIN m_outputFrame' = DOMAIN m_outputFrame
          /\ Size(m_msgs') = Size(m_msgs) /\ m_msgs' = m_msgs
          /\ Size(m_iovecs') = Size(m_iovecs)
          /\ \A i \in DOMAIN m_iovecs :
                /\ m_iovecs'[i].iov_len = m_iovecs[i].iov_len
                /\ m_iovecs'[i].iov_base = m_iovecs[i].iov_base
          /\ (pc # "idle" \/ pc' # "idle") => m_outputFrame' = m_outputFrame]_vars

C22_Witness ==
    /\ lifecycle = "initialized" /\ Returned /\ prepArg = 2
    /\ m_slowCount = 2 /\ retried /\ MsgCount = 4 /\ Size(m_outputFrame) = 6
    /\ m_outputFrame = PreparedFresh(0, 2)

\* the DeviceScanBuffer the second output has after PrepData with the
\* buffer of frame f, run alone
PeerPrepared(f) ==
    PrepOutputs([i \in 0..(PeerGeometry.frameSize - 1) |-> 0],
                ChannelData(f, StartChannel + PeerGeometry.channelCount),
                PeerGeometry.panelMatrix, GammaCurve(GammaUsed(PeerConfig)),
                PeerGeometry.longestChain, PeerGeometry.flippedLayout,
                0, PeerGeometry.outputs)

\* C23: two outputs driven by threads of their own share no mutable
\* state: under every interleaving a step of one output's thread leaves
\* the other output's slow-frame counter, sent-packet count, packet list
\* and DeviceScanBuffer as they are, and each output's counter and buffer
\* are at every moment what its own calls alone make them.
C23_InstancesShareNothing ==
    /\ [][(peer' # peer =>
             (m_slowCount' = m_slowCount /\ outputCount' = outputCount
              /\ m_msgs' = m_msgs /\ m_iovecs' = m_iovecs
              /\ m_outputFrame' = m_outputFrame /\ ownVars' = ownVars))
          /\ (ownVars' # ownVars => peer' = peer)]_vars
    /\ [](Returned => (m_slowCount > 0 <=> outputCount # MsgCount))
    /\ []((peer.pc = "idle" /\ peer.lifecycle = "initialized") =>
            ((peer.m_slowCount > 0 => peer.outputCount # peer.msgCount)
             /\ (peer.outputCount \notin {0, peer.msgCount}
                    => peer.m_slowCount > 0)))
    /\ []((initRet # -1 /\ prepArg # 0) =>
            m_outputFrame = PreparedFresh(0, prepArg))
    /\ [](peer.prepArg # 0 => peer.m_outputFrame = PeerPrepared(peer.prepArg))

C23_Witness ==
    /\ pc = "retry" /\ peer.pc = "retry"
    /\ outputCount = 1 /\ peer.outputCount = 3
    /\ m_slowCount = 2 /\ peer.m_slowCount = 0
    /\ prepArg = 2 /\ peer.prepArg = 1

\* C24: the gamma table Init builds has table[0] = 0, is non-decreasing
\* over 0..255, has every entry in 0..255 and is the identity for the
\* exponent 1.0
C24_GammaTable ==
    initRet # -1 =>
        /\ DOMAIN m_gammaCurve = 0..255
        /\ m_gammaCurve[0] = 0
        /\ \A x \in 0..254 : m_gammaCurve[x] <= m_gammaCurve[x + 1]
        /\ \A x \in 0..255 : m_gammaCurve[x] \in 0..255
        /\ GammaUsed(config) = 100 => \A x \in 0..255 : m_gammaCurve[x] = x

\* Init has built a table for an exponent other than 1.0
C24_Witness ==
    /\ initRet # -1 /\ config.gamma = 50
    /\ m_gammaCurve[1] = 16 /\ m_gammaCurve[64] = 128

\* C25 as claimed: the exponent of the table is the configured gamma clamped
\* to (0.01, 50.0], and 1.0 when gamma is not configured
C25_GammaClamped ==
    initRet # -1 => m_gammaCurve = GammaCurve(GammaUsed_Clamped(config))

\* C25: the exponent of the table is the configured gamma when that lies in
\* (0.01, 50.0], and 1.0 when gamma is not configured or lies outside; Init
\* builds the table and no later step changes it
C25_GammaInRangeOrDefault ==
    [][/\ (initRet = -1 /\ initRet' # -1) =>
            m_gammaCurve' =
                GammaCurve(IF config'.gamma > 1 /\ config'.gamma <= 5000
                           THEN config'.gamma ELSE 100)
       /\ initRet # -1 => (m_gammaCurve' = m_gammaCurve /\ config' = config)]_vars

\* Init was given a gamma above 50.0 and built the table of 1.0
C25_Witness ==
    /\ initRet # -1 /\ config.gamma = 5001
    /\ m_gammaCurve[128] = 128

\* C26: within one SendData call the count of accepted packets never
\* decreases and never exceeds the length of the packet list: a zero or
\* negative result of the send primitive leaves it unchanged, a positive
\* result advances it by exactly that amount, and the slice given to each
\* retry is non-empty and lies inside the packet list
C26_AcceptedCountAdvances ==
    /\ [][InCall => outputCount' >= outputCount]_vars
    /\ [][pc = "retry" =>
            \A oc \in SendResults(MsgCount), dt \in SendTicks :
                SendData_Retry(oc, dt) =>
                    /\ oc <= 0 => (outputCount' = outputCount /\ wire' = wire)
                    /\ oc > 0 => /\ outputCount' = outputCount + oc
                                 /\ Len(wire') = Len(wire) + oc]_vars
    /\ [](InCall => (0 <= outputCount /\ outputCount <= MsgCount
                      /\ outputCount = Len(wire)))
    /\ [](pc = "retry" =>
            /\ RetryFrom(outputCount) \in 0..(MsgCount - 1)
            /\ MsgCount - outputCount > 0
            /\ RetryFrom(outputCount) + (MsgCount - outputCount) <= MsgCount)

\* a retry has advanced the count by part of what was left
C26_Witness ==
    /\ pc = "sleep" /\ retried /\ slept
    /\ MsgCount = 4 /\ outputCount = 3 /\ Len(wire) = 3

\* the first byte and the byte after the last of the write of row y of
\* panel i
WriteFirst(i, y) == PanelRowDst(i, y)
WriteEnd(i, y) == PanelRowDst(i, y) + m_panelWidth * 3

\* C27: every write of PrepData to the DeviceScanBuffer lies inside the
\* buffer Init allocated, for every configuration whose panels have
\* outputNumber >= 0 and chainPosition >= 0, in the legacy and in the
\* current layout, also when places of the wall hold no panel
C27_PrepDataWritesInsideBuffer ==
    (initRet # -1
     /\ \A k \in DOMAIN config.panels :
           config.panels[k].outputNumber >= 0 /\ config.panels[k].panelNumber >= 0)
    => \A i \in DOMAIN m_panelMatrix.panels, y \in 0..(m_panelHeight - 1) :
           /\ m_panelMatrix.panels[i].output \in 0..(m_outputs - 1)
           /\ WriteFirst(i, y) >= 0
           /\ WriteEnd(i, y) <= Size(m_outputFrame)
           /\ Size(m_outputFrame)
                = m_outputs * m_longestChain * m_panelHeight * m_panelWidth * 3

\* PrepData has run on a wall with an empty place; the current layout
\* puts the row of the panel at chain 0 of output 0 at the end of the
\* first output's row
C27_Witness ==
    /\ config = CfgHole /\ prepArg # 0 /\ ~FullWall
    /\ \E i \in DOMAIN m_panelMatrix.panels :
          /\ m_panelMatrix.panels[i].output = 0
          /\ m_panelMatrix.panels[i].chain = 0
          /\ WriteEnd(i, 0) = m_rowSize

\* the time SendData has taken, in milliseconds, as its time check sees it
Elapsed == GetTimeMS(now) - startTime

\* C28: when the first send attempt of a SendData call is incomplete, at
\* least one retry is made, even if 22 ms have already elapsed; after each
\* incomplete retry the elapsed time is checked: the driver sleeps before
\* the next retry exactly when it is below 22 ms and otherwise stops
\* retrying, so no two retries follow each other without a sleep
C28_RetryThenSleepOrStop ==
    /\ [][(IsStartStep /\ outputCount' # Size(m_msgs')) => pc' = "retry"]_vars
    /\ []((pc = "finish" /\ ~retried) => outputCount = MsgCount)
    /\ [][(pc = "retry" /\ outputCount' # MsgCount) =>
            /\ retried'
            /\ Elapsed' < DeadlineMS => (pc' = "sleep" /\ ~done')
            /\ Elapsed' >= DeadlineMS => (pc' = "finish" /\ done')]_vars
    /\ [][pc = "sleep" => (pc' = "retry" /\ now' >= now + 1 /\ slept')]_vars
    /\ [][pc = "retry" => pc' # "retry"]_vars
    /\ [][(pc' = "retry" /\ ~IsStartStep) => pc = "sleep"]_vars

\* the first attempt took the 22 ms and was incomplete: one retry was made
\* without a sleep, and the call stopped retrying
C28_Witness ==
    /\ pc = "finish" /\ done /\ retried /\ ~slept /\ lateRetries = 1
    /\ outputCount = 1 /\ MsgCount = 3
    /\ Elapsed >= 2 * DeadlineMS

\* the places <<output, chainPosition>> of the wall, those that hold no
\* panel and those that hold one
Places == (0..(m_outputs - 1)) \X (0..(m_longestChain - 1))
EmptyPlaces == {p \in Places : PanelsAt(p[1], p[2]) = {}}
HeldPlaces == Places \ EmptyPlaces

\* the bytes of the DeviceScanBuffer that belong to place p
PlaceBytes(p) ==
    {PrepDst(p[1], y, PrepChain(p[2], m_longestChain, m_flippedLayout),
             m_panelWidth, m_panelHeight, m_longestChain) + k :
        y \in 0..(m_panelHeight - 1), k \in 0..(m_panelWidth * 3 - 1)}

\* C29: on a wall where a place of outputs x longestChain holds no panel,
\* PrepData leaves the DeviceScanBuffer bytes of that place unchanged (no
\* frame ever writes them), and still writes every byte of every place
\* that holds a panel
C29_EmptyPlacesKeepTheirBytes ==
    /\ [][initRet # -1 =>
            \A p \in EmptyPlaces : \A d \in PlaceBytes(p) :
                m_outputFrame'[d] = m_outputFrame[d]]_vars
    /\ []((initRet # -1 /\ prepArg # 0) =>
            \A p \in HeldPlaces : \A d \in PlaceBytes(p) :
                \E w \in PrepWriters(d) :
                    /\ m_panelMatrix.panels[w[1]].output = p[1]
                    /\ m_panelMatrix.panels[w[1]].chain = p[2]
                    /\ m_outputFrame[d] = PrepValue(w, d, prepArg))

\* PrepData has run twice on a wall with two empty places: their bytes hold
\* what the allocation held, the other bytes were written
C29_Witness ==
    /\ config = CfgHole /\ prepArg = 2 /\ Cardinality(EmptyPlaces) = 2
    /\ \A p \in EmptyPlaces : \A d \in PlaceBytes(p) : m_outputFrame[d] = 165
    /\ \A p \in HeldPlaces : \E d \in PlaceBytes(p) : m_outputFrame[d] # 165

\* C30 (as claimed): the chain number OverlayTestData draws on a panel lies
\* in 1..longestChain in both layouts; in the current layout it is
\* chainPosition + 1 and in the legacy layout the mirror of that,
\* longestChain - chainPosition
C30_TestChainNumberInRange ==
    \A k \in DOMAIN drawn :
        LET chain == m_panelMatrix.panels[drawn[k].panel].chain
        IN  /\ chain \in 0..(m_longestChain - 1)
            /\ drawn[k].chainNumber \in 1..m_longestChain
            /\ drawn[k].chainNumber =
                  IF m_flippedLayout # 0 THEN m_longestChain - chain
                  ELSE chain + 1

====
